---------------------------- MODULE Spec2Model ----------------------------
(***************************************************************************)
(* Store-and-forward synchronisation between the monitoring agent          *)
(* (src/agent.py) and the collector (src/server.py).                       *)
(*                                                                         *)
(* Eleven specifications share the module:                                 *)
(*   Spec       one agent, its spool, one TCP connection and the           *)
(*              collector's persistent state;                              *)
(*   HealSpec   the same agent and collector started in the "registry was  *)
(*              reset" situation, with a fault-free environment and the    *)
(*              fairness the agent's scheduling gives;                     *)
(*   ServerSpec process_data applied to arbitrary envelopes;               *)
(*   ConnSpec   the accept loop, the thread pool, handle_client and the    *)
(*              shutdown signal;                                           *)
(*   OrderSpec  the file listing of send_files_to_server as a function of  *)
(*              the set of pending sequence numbers;                       *)
(*   ResendSpec the agent and collector of Spec started with a snapshot    *)
(*              and a sample pending and an empty registry;                *)
(*   RestartSpec the start of an identified agent on any set of files;     *)
(*   FrameSpec  the receive loop of handle_client on any byte stream, cut  *)
(*              into packets in any way;                                   *)
(*   BootSpec   one server process from main() on: construction, retention *)
(*              sweep, listening;                                          *)
(*   IdSpec     generate_machine_id of the collector and of the offline    *)
(*              importer (src/process_zipped_data.py) on JSON snapshots;   *)
(*   RaceSpec   the persistence operations of workers that register        *)
(*              snapshots at the same time.                                *)
(***************************************************************************)
EXTENDS Integers, Sequences, FiniteSets, Bags, TLC

(***************************************************************************)
(* Bounds of the model.                                                    *)
(***************************************************************************)
\* how many samples the agent captures in one behaviour
MaxCaptures == 3
\* sample files weigh 1..MaxSampleSize bytes
MaxSampleSize == 2
\* STORAGE_LIMIT (200 MiB in the source) scaled to the model's file sizes
StorageLimit == 3
\* how many environment events (agent restarts, losses of the registry, read
\* timeouts, unreadable spool files, failed persistence operations, failed
\* writes of ID_FILE, connection losses) one behaviour may contain
MaxFaults == 2

None == "None"
Absent == "Absent"

(***************************************************************************)
(* Spool file names.  A spool file is <n>.json.gz; the model names a file  *)
(* by n and builds the characters of the name when names are compared.     *)
(***************************************************************************)
RECURSIVE Digits(_)
Digits(n) == IF n < 10 THEN <<48 + n>> ELSE Append(Digits(n \div 10), 48 + (n % 10))

\* "<n>.json.gz" as character codes; the suffix after the dot is common to
\* all names, so the dot (46) stands for it.
FileName(n) == Append(Digits(n), 46)

RECURSIVE StrLess(_, _)
\* Python's str.__lt__: lexicographic on code points, a proper prefix first
StrLess(a, b) ==
    IF b = <<>> THEN FALSE
    ELSE IF a = <<>> THEN TRUE
    ELSE IF Head(a) # Head(b) THEN Head(a) < Head(b)
    ELSE StrLess(Tail(a), Tail(b))

RECURSIVE SortedNames(_)
\* sorted([f for f in os.listdir(DATA_DIR) if f.endswith('.json.gz')])
SortedNames(S) ==
    IF S = {} THEN <<>>
    ELSE LET m == CHOOSE x \in S : \A y \in S \ {x} : StrLess(FileName(x), FileName(y))
         IN  <<m>> \o SortedNames(S \ {m})

\* json_files as built before the connection is opened
ListPending(S, mid) ==
    LET sorted == SortedNames(S)
    IN  IF 1 \in S /\ mid = None
        THEN <<1>> \o SelectSeq(sorted, LAMBDA f : f # 1)
        ELSE sorted

(***************************************************************************)
(* The collector's persistent state and process_data.                      *)
(***************************************************************************)
Fingerprints == {"fpA", "fpB"}

\* md5 of the canonical fingerprint string, abstracted to one id per
\* fingerprint
generate_machine_id(content) == IF content.fp = "fpA" THEN "idA" ELSE "idB"

Resp(status, message, mid) == [status |-> status, message |-> message, machine_id |-> mid]

\* The registry is the set of machine_id values of machine_ids_collection;
\* last_seen tells, for each of them, which kind of operation wrote the
\* last_seen field last ("reg": register_machine, "var": save_variable_data).
SetSeen(seen, mid, by) == [m \in (DOMAIN seen) \cup {mid} |-> IF m = mid THEN by ELSE seen[m]]

\* a $set whose document carries first_seen
set_with_first_seen(first, mid, now) == SetSeen(first, mid, now)

\* update_one({'machine_id': mid}, {'$set': machine_record}) as far as
\* first_seen goes: machine_record has the keys machine_id, hostname,
\* os_name, last_seen and status, so the field keeps its value
set_machine_record(first, mid, now) == first

\* register_machine: FALSE when the persistence operation raises.  An
\* existing entry is rewritten with $set; a new one is inserted with
\* first_seen = now.
register_machine(db, mid, fault, now) ==
    IF fault = "register"
    THEN [ok |-> FALSE, db |-> db]
    ELSE [ok |-> TRUE,
          db |-> [db EXCEPT !.registry = @ \cup {mid},
                            !.last_seen = SetSeen(@, mid, "reg"),
                            !.first_seen = IF mid \in db.registry
                                           THEN set_machine_record(@, mid, now)
                                           ELSE SetSeen(@, mid, now)]]

\* save_static_data: upsert of the one snapshot document of mid
save_static_data(db, mid, fault) ==
    IF fault = "static"
    THEN [ok |-> FALSE, db |-> db]
    ELSE [ok |-> TRUE, db |-> [db EXCEPT !.static_data = @ \cup {mid}]]

\* an update that sets last_seen on every registry document
update_every(seen, mid) == [m \in DOMAIN seen |-> "var"]

\* machine_ids_collection.update_one({'machine_id': mid}, {'$set':
\* {'last_seen': now}}): the matching document, if any
update_one(seen, mid) == [m \in DOMAIN seen |-> IF m = mid THEN "var" ELSE seen[m]]

\* save_variable_data: insert_one, then update_one of last_seen; either may
\* raise, and the insert is not undone when the update raises.  The stored
\* document is stamped with the collector's clock, now, not with the time
\* the agent captured the sample.
save_variable_data(db, mid, content, fault, now) ==
    IF fault = "insert"
    THEN [ok |-> FALSE, db |-> db]
    ELSE LET doc == [machine_id |-> mid, n |-> content.n, timestamp |-> now]
             stored == [db EXCEPT !.variable_data = @ (+) SetToBag({doc})]
         IN  IF fault = "update"
             THEN [ok |-> FALSE, db |-> stored]
             ELSE [ok |-> TRUE,
                   db |-> [stored EXCEPT !.last_seen = update_one(@, mid)]]

\* a lookup that finds a registry document for whatever identifier is asked
find_one_any(db, mid) == TRUE

\* self.machine_ids_collection.find_one({'machine_id': machine_id}) is truthy;
\* every registry document carries a non-null machine_id, so a null id
\* matches none.  The lookup is taken to answer: a lookup that raises is not
\* among the persistence faults of the model.
find_one(db, mid) == mid \in db.registry

\* a version test that lets every envelope pass
version_any(data) == TRUE

\* data.get('version') == "1.0"
version_ok(data) == data.version = "1.0"

\* 'os' in content: content kinds "snapshot" (every field StaticData
\* requires) and "badsnapshot" (os, but another required field missing)
\* have the key; "noos" (the snapshot fields without os) and "sample" do not
has_os(content) == content.kind \in {"snapshot", "badsnapshot"}

\* process_data(data): the response and the persistent state after it.
\* data.machine_id is Absent when the envelope has no such key and None
\* when it is null.
process_data(db, data, fault, now) ==
    IF ~version_ok(data)
    THEN [db |-> db, resp |-> Resp("error", "Invalid data version", Absent)]
    ELSE IF data.content.kind = "null"
    THEN \* 'os' in None raises TypeError
         [db |-> db, resp |-> Resp("error", "TypeError", Absent)]
    ELSE IF has_os(data.content)
    THEN IF data.content.kind = "badsnapshot"
         THEN [db |-> db, resp |-> Resp("error", "Invalid data format", Absent)]
         ELSE LET mid == generate_machine_id(data.content)
                  reg == register_machine(db, mid, fault, now)
                  sav == save_static_data(reg.db, mid, fault)
              IN  IF ~reg.ok
                  THEN [db |-> reg.db,
                        resp |-> Resp("error", "Failed to register machine", Absent)]
                  ELSE IF ~sav.ok
                  THEN [db |-> sav.db,
                        resp |-> Resp("error", "Failed to save static data", Absent)]
                  ELSE [db |-> sav.db,
                        resp |-> Resp("success", "Static data registered", mid)]
    ELSE IF data.machine_id # Absent
    THEN IF ~find_one(db, data.machine_id)
         THEN [db |-> db, resp |-> Resp("error", "RESEND_STATIC_DATA", Absent)]
         ELSE LET sav == save_variable_data(db, data.machine_id, data.content, fault, now)
              IN  IF ~sav.ok
                  THEN [db |-> sav.db,
                        resp |-> Resp("error", "Failed to save variable data", Absent)]
                  ELSE [db |-> sav.db,
                        resp |-> Resp("success", "Variable data saved", Absent)]
    ELSE [db |-> db, resp |-> Resp("error", "Invalid data format", Absent)]

EmptyDb == [registry |-> {}, last_seen |-> <<>>, first_seen |-> <<>>, static_data |-> {},
            variable_data |-> EmptyBag]

(***************************************************************************)
(* State.                                                                  *)
(***************************************************************************)
VARIABLES
    \* ---- the agent's disk
    id_file,            \* content of ID_FILE, None when the file is absent
    spool,              \* DATA_DIR: sequence number -> [kind, size, n]
    \* ---- the agent process (globals and locals of continuous_collection)
    apc,                \* "start", "loop", "send", "iter", "recv", "exited"
    file_counter,
    initial_data_saved,
    machine_id,         \* local of continuous_collection
    captured,           \* number of samples captured so far; names the payloads
    \* ---- locals of send_files_to_server
    s_mid,              \* its local machine_id
    json_files,         \* the part of json_files the loop has not visited yet
    cur,                \* json_file of the running iteration, 0 outside one
    \* ---- the TCP connection of the running send cycle
    conn,               \* "closed", "open", "reset"
    c2s,                \* envelopes written by the agent, not yet processed
    s2c,                \* responses written by the worker, not yet read
    \* ---- the collector's persistent state
    db,
    \* ---- the number of environment events so far
    faults,
    \* ---- history: the last response handled and the running send cycle
    obs,
    cyc,
    \* ---- ServerSpec: the last envelope processed and its outcome
    last,
    \* ---- ConnSpec
    workers,            \* connection -> position of its handle_client call
    queue,              \* connections submitted to the executor, not started
    active_connections,
    lock,               \* the connection whose worker holds self.lock, 0 when free
    hist,               \* connection -> what has happened to it
    \* ---- OrderSpec
    pending,            \* a set of pending sequence numbers
    listing,            \* the list send_files_to_server builds from it
    \* ---- ConnSpec: the listening socket and the MongoDB client
    srv,
    \* ---- FrameSpec: one connection's byte stream and its worker
    framing,
    \* ---- BootSpec: the life of one server process
    boot,
    \* ---- RaceSpec: two workers inside register_machine
    racers,
    \* ---- IdSpec: two snapshots and the identities computed from them
    idq

agentVars == <<id_file, spool, apc, file_counter, initial_data_saved, machine_id, captured,
               s_mid, json_files, cur>>
netVars == <<conn, c2s, s2c>>
syncVars == <<agentVars, netVars, db, faults, obs, cyc>>
serverVars == <<last>>
connVars == <<workers, queue, active_connections, lock, hist, srv>>
orderVars == <<pending, listing>>
moreVars == <<framing, boot, racers, idq>>
nonSync == <<serverVars, connVars, orderVars, moreVars>>
vars == <<syncVars, nonSync>>

(***************************************************************************)
(* The spool (src/agent.py).                                               *)
(***************************************************************************)
Files == DOMAIN spool

RemoveFile(sp, f) == [g \in (DOMAIN sp) \ {f} |-> sp[g]]

WriteFile(sp, f, rec) == [g \in (DOMAIN sp) \cup {f} |-> IF g = f THEN rec ELSE sp[g]]

RECURSIVE SumSizes(_, _)
SumSizes(sp, S) ==
    IF S = {} THEN 0
    ELSE LET f == CHOOSE x \in S : TRUE IN sp[f].size + SumSizes(sp, S \ {f})

get_data_directory_size(sp) == SumSizes(sp, DOMAIN sp)

is_storage_limit_reached(sp) == get_data_directory_size(sp) >= StorageLimit

RECURSIVE FirstFree(_, _)
\* while os.path.exists(f"{DATA_DIR}/{file_counter}.json.gz"): file_counter += 1
FirstFree(k, S) == IF k \in S THEN FirstFree(k + 1, S) ELSE k

\* the counter as it is, whether or not a file has that number
next_unchecked(fc, sp) == fc

get_next_filename(fc, sp) == FirstFree(fc, DOMAIN sp)

reset_file_counter(sp) == FirstFree(1, DOMAIN sp)

Snapshot == [kind |-> "snapshot", size |-> 1, n |-> 0]

Sample(size, n) == [kind |-> "sample", size |-> size, n |-> n]

\* save_initial_data: the spool and the flag after the call
save_initial_data(sp, saved) ==
    IF saved \/ 1 \in DOMAIN sp
    THEN [spool |-> sp, saved |-> saved]
    ELSE [spool |-> WriteFile(sp, 1, Snapshot), saved |-> TRUE]

\* the JSON content of a spool file as the envelope carries it
ContentOf(rec) ==
    [kind |-> rec.kind, fp |-> IF rec.kind = "snapshot" THEN "fpA" ELSE "-", n |-> rec.n]

Envelope(f, rec, mid) ==
    [version |-> "1.0", filename |-> f, content |-> ContentOf(rec), machine_id |-> mid]

NoObs == [file |-> 0, for |-> 0, status |-> "none", removed |-> FALSE, again |-> FALSE,
          wrote |-> FALSE, had |-> FALSE, rec |-> [kind |-> "none", size |-> 0, n |-> 0]]

NoCycle == [on |-> FALSE, done |-> FALSE, unid |-> FALSE, files |-> {}, bad |-> {},
            sent |-> {}, clean |-> TRUE, first |-> "none", err |-> FALSE, late |-> FALSE,
            refused |-> FALSE, tries |-> 0, im |-> 0, since |-> 0, run |-> 0]

\* FILES_PER_BATCH (5 in the source), scaled to the spools of the model
FilesPerBatch == 2

\* the counters of the history stop one above FilesPerBatch
Counted(n) == IF n > FilesPerBatch THEN FilesPerBatch + 1 ELSE n

\* the history of the for loop when the iteration of index i ends: cyc.im is
\* i modulo FilesPerBatch; paused tells whether time.sleep(BATCH_PAUSE) ran
IterationEnds(c, paused) ==
    [c EXCEPT !.im = (@ + 1) % FilesPerBatch,
              !.since = IF paused THEN 0 ELSE @,
              !.run = IF paused THEN 0 ELSE @]


(***************************************************************************)
(* The agent: continuous_collection (src/agent.py).                        *)
(***************************************************************************)
\* Frames still unread by the worker when the agent closes its socket stay
\* in the worker's receive buffer; their responses can no longer be read.
Staled(frames) == [k \in DOMAIN frames |-> [frames[k] EXCEPT !.stale = TRUE]]

\* continuous_collection up to its while loop: initialize_data_collection,
\* get_machine_id and, without an identity, save_initial_data followed by the
\* first send_files_to_server.
AgentStart ==
    /\ apc = "start"
    /\ LET saved0 == 1 \in Files
           ini == IF id_file = None
                  THEN save_initial_data(spool, saved0)
                  ELSE [spool |-> spool, saved |-> saved0]
       IN  /\ file_counter' = reset_file_counter(spool)
           /\ initial_data_saved' = ini.saved
           /\ spool' = ini.spool
           /\ machine_id' = id_file
           /\ apc' = IF id_file = None THEN "send" ELSE "loop"
    /\ cyc' = NoCycle
    /\ UNCHANGED <<id_file, captured, s_mid, json_files, cur, netVars, db, faults, obs,
                   nonSync>>

\* a test that every value passes
always_true(mid) == TRUE

\* `if machine_id:` with machine_id a string or None
truthy(mid) == mid # None

\* One pass of the while loop of continuous_collection up to the decision
\* to send.  capture is 0 when collect_variable_data yields no usable sample
\* and the sample's size otherwise; due tells whether SEND_INTERVAL has
\* elapsed.
LoopIteration(capture, due) ==
    /\ apc = "loop"
    /\ cyc' = NoCycle
    /\ IF is_storage_limit_reached(spool)
       THEN /\ apc' = "exited"
            /\ UNCHANGED <<spool, file_counter, initial_data_saved, captured>>
       ELSE LET ini == IF initial_data_saved
                       THEN [spool |-> spool, saved |-> TRUE]
                       ELSE save_initial_data(spool, FALSE)
                nf == get_next_filename(file_counter, ini.spool)
                take == truthy(machine_id) /\ capture > 0
            IN  /\ take => captured < MaxCaptures
                /\ captured' = IF take THEN captured + 1 ELSE captured
                /\ initial_data_saved' = ini.saved
                /\ file_counter' = IF take THEN nf ELSE file_counter
                /\ spool' = IF take
                            THEN WriteFile(ini.spool, nf, Sample(capture, captured + 1))
                            ELSE ini.spool
                /\ apc' = IF due THEN "send" ELSE "loop"
    /\ UNCHANGED <<id_file, machine_id, s_mid, json_files, cur, netVars, db, faults, obs, nonSync>>

LoopSleep == \E capture \in 0..MaxSampleSize : LoopIteration(capture, FALSE)

LoopSend == \E capture \in 0..MaxSampleSize : LoopIteration(capture, TRUE)

(***************************************************************************)
(* The agent: send_files_to_server (src/agent.py).                         *)
(***************************************************************************)
\* the return of send_files_to_server: the socket is closed and the caller
\* assigns the result to its machine_id
Return(mid) ==
    /\ apc' = "loop"
    /\ machine_id' = mid
    /\ json_files' = <<>>
    /\ cur' = 0
    /\ conn' = "closed"
    /\ c2s' = Staled(c2s)
    /\ s2c' = <<>>

\* max_tries of the backoff.on_exception decorator
MaxTries == 5

\* Whether an exception raised inside send_files_to_server leaves the
\* function, which is what the decorator waits for: the handler of Exception
\* around the connection (lines 610-612) returns machine_id, so none does.
Escapes(exc) == FALSE

\* From the entry of send_files_to_server to the connected socket.
\* connects is FALSE when connect() raises.  The decorator calls the
\* function again, after a delay, when an exception of its list escapes and
\* fewer than MaxTries calls were made.
SendBegin(connects) ==
    /\ apc = "send"
    /\ LET mid == id_file
           files == ListPending(Files, mid)
       IN  /\ s_mid' = mid
           /\ IF files = <<>>
              THEN /\ Return(mid)
                   /\ cyc' = NoCycle
              ELSE IF ~connects
              THEN IF Escapes("ConnectionRefusedError") /\ cyc.tries + 1 < MaxTries
                   THEN /\ cyc' = [NoCycle EXCEPT !.tries = cyc.tries + 1]
                        /\ UNCHANGED <<apc, machine_id, json_files, cur, netVars>>
                   ELSE /\ Return(mid)
                        /\ cyc' = [NoCycle EXCEPT !.refused = TRUE,
                                                  !.tries = cyc.tries + 1]
              ELSE /\ apc' = "iter"
                   /\ json_files' = files
                   /\ cur' = 0
                   /\ conn' = "open"
                   /\ s2c' = <<>>
                   /\ cyc' = [NoCycle EXCEPT !.on = TRUE, !.unid = (mid = None),
                                             !.files = Files, !.tries = cyc.tries + 1]
                   /\ UNCHANGED <<machine_id, c2s>>
    /\ UNCHANGED <<id_file, spool, file_counter, initial_data_saved, captured, db, faults, obs, nonSync>>

\* the end of the for loop, or a break out of it
EndCycle ==
    /\ Return(s_mid)
    /\ cyc' = [cyc EXCEPT !.on = FALSE, !.done = TRUE]

\* what a break in the handler of Exception would leave to visit
AbortBatch(rest) == <<>>

\* the handler of Exception inside the for loop logs and does not break:
\* the files after the failed one are still visited
AfterError(rest) == rest

\* The for loop takes the next file, reads it and writes its envelope.
SendNext ==
    /\ apc = "iter"
    /\ obs' = NoObs
    /\ IF json_files = <<>>
       THEN /\ EndCycle
            /\ UNCHANGED <<s_mid>>
       ELSE LET f == Head(json_files)
            IN  IF f \notin Files \/ spool[f].kind = "corrupt"
                THEN \* gzip.open or json.loads raises: logged, next file
                     /\ json_files' = AfterError(Tail(json_files))
                     /\ cur' = 0
                     /\ cyc' = IterationEnds([cyc EXCEPT !.bad = @ \cup {f},
                                                          !.run = Counted(@ + 1)], FALSE)
                     /\ UNCHANGED <<apc, machine_id, s_mid, netVars>>
                ELSE IF conn = "reset"
                THEN \* sendall raises ConnectionResetError or BrokenPipeError
                     /\ EndCycle
                     /\ UNCHANGED <<s_mid>>
                ELSE /\ json_files' = Tail(json_files)
                     /\ cur' = f
                     /\ apc' = "recv"
                     /\ c2s' = Append(c2s, [env |-> Envelope(f, spool[f], s_mid),
                                             stale |-> FALSE])
                     /\ cyc' = [cyc EXCEPT !.sent = @ \cup {f},
                                           !.first = IF @ = "none" THEN spool[f].kind ELSE @,
                                           !.late = @ \/ cyc.err,
                                           !.since = Counted(@ + 1),
                                           !.run = Counted(@ + 1)]
                     /\ UNCHANGED <<machine_id, s_mid, conn, s2c>>
    /\ UNCHANGED <<id_file, spool, file_counter, initial_data_saved, captured, db, faults, nonSync>>

\* save_machine_id: the identifier replaces the content of ID_FILE; a failed
\* write is logged and leaves the file as it was
save_machine_id(file, mid, writes) == IF writes THEN mid ELSE file

\* The agent handles what recv(1024) returned for the envelope of cur.
\* writes is FALSE when the write of ID_FILE fails.
HandleResponse(writes) ==
    /\ apc = "recv"
    /\ conn = "open"
    /\ s2c # <<>>
    /\ s2c' = <<>>
    /\ cur' = 0
    /\ apc' = "iter"
    /\ IF Len(s2c) > 1
       THEN \* several responses in one read: json.loads raises, logged, next file
            /\ writes
            /\ cyc' = IterationEnds([cyc EXCEPT !.clean = FALSE], FALSE)
            /\ UNCHANGED <<id_file, spool, s_mid, json_files, obs, faults>>
       ELSE LET r == s2c[1]
                ok == r.status = "success"
                named == ok /\ cur = 1 /\ r.machine_id \notin {Absent, None}
                again == ~ok /\ r.message = "RESEND_STATIC_DATA" /\ cur # 1 /\ 1 \in Files
                \* continue skips the test; otherwise (i + 1) % FILES_PER_BATCH == 0
                paused == ~again /\ (cyc.im + 1) % FilesPerBatch = 0
            IN  /\ ~writes => named /\ faults < MaxFaults
                /\ faults' = IF writes THEN faults ELSE faults + 1
                /\ s_mid' = IF named THEN r.machine_id ELSE s_mid
                /\ id_file' = IF named
                              THEN save_machine_id(id_file, r.machine_id, writes)
                              ELSE id_file
                /\ spool' = IF ok THEN RemoveFile(spool, cur) ELSE spool
                \* json_files.insert(0, "1.json.gz") shifts the file just
                \* visited to the position the iterator visits next
                /\ json_files' = IF again THEN <<cur>> \o json_files ELSE json_files
                /\ obs' = [file |-> cur, for |-> r.for, status |-> r.status,
                           removed |-> ok /\ cur \in Files, again |-> again,
                           wrote |-> named /\ writes, had |-> id_file # None,
                           rec |-> IF cur \in Files THEN spool[cur] ELSE NoObs.rec]
                /\ cyc' = IterationEnds(IF ok
                                        THEN [cyc EXCEPT !.late = @ \/ cyc.err]
                                        ELSE [cyc EXCEPT !.bad = @ \cup {cur}], paused)
    /\ UNCHANGED <<file_counter, initial_data_saved, captured, machine_id, conn, c2s, db,
                   nonSync>>

\* recv raises socket.timeout after 5 s without a response: caught by the
\* handler of Exception inside the for loop
RecvTimeout ==
    /\ apc = "recv"
    /\ conn = "open"
    /\ s2c = <<>>
    /\ faults < MaxFaults
    /\ faults' = faults + 1
    /\ apc' = "iter"
    /\ cur' = 0
    /\ cyc' = IterationEnds([cyc EXCEPT !.clean = FALSE, !.err = TRUE], FALSE)
    /\ UNCHANGED <<id_file, spool, file_counter, initial_data_saved, captured, machine_id, s_mid,
                   json_files, netVars, db, obs, nonSync>>

\* recv raises ConnectionResetError: break
RecvReset ==
    /\ apc = "recv"
    /\ conn = "reset"
    /\ Return(s_mid)
    /\ cyc' = [cyc EXCEPT !.on = FALSE, !.done = TRUE, !.clean = FALSE, !.err = TRUE]
    /\ UNCHANGED <<id_file, spool, file_counter, initial_data_saved, captured, s_mid, db, faults, obs,
                   nonSync>>

(***************************************************************************)
(* The worker serving the agent's connection (handle_client, lines         *)
(* 243-254) and the environment.                                           *)
(***************************************************************************)
DbFaults == {"none", "register", "static", "insert", "update"}

RECURSIVE DropStale(_)
DropStale(frames) ==
    IF frames # <<>> /\ Head(frames).stale THEN DropStale(Tail(frames)) ELSE frames

\* One frame is parsed, processed and answered.  A response to a socket the
\* agent has closed is lost; gone tells whether that sendall raises, which
\* ends the worker before it handles the frames that follow.
ServeFrame(fault, gone) ==
    /\ c2s # <<>>
    /\ LET frame == Head(c2s)
           out == process_data(db, frame.env, fault, 0)
       IN  /\ fault # "none" =>
                /\ faults < MaxFaults
                /\ out # process_data(db, frame.env, "none", 0)
           /\ gone => frame.stale
           /\ db' = out.db
           /\ faults' = IF fault = "none" THEN faults ELSE faults + 1
           /\ c2s' = IF gone THEN DropStale(c2s) ELSE Tail(c2s)
           /\ s2c' = IF frame.stale
                     THEN s2c
                     ELSE Append(s2c, [status |-> out.resp.status,
                                       message |-> out.resp.message,
                                       machine_id |-> out.resp.machine_id,
                                       for |-> frame.env.filename])
    /\ UNCHANGED <<agentVars, conn, obs, cyc, nonSync>>

Serve == \E fault \in DbFaults, gone \in BOOLEAN : ServeFrame(fault, gone)

\* the agent process is killed and started again
Restart ==
    /\ faults < MaxFaults
    /\ apc # "start"
    /\ faults' = faults + 1
    /\ apc' = "start"
    /\ file_counter' = 1
    /\ initial_data_saved' = FALSE
    /\ machine_id' = None
    /\ s_mid' = None
    /\ json_files' = <<>>
    /\ cur' = 0
    /\ conn' = "closed"
    /\ c2s' = Staled(c2s)
    /\ s2c' = <<>>
    /\ cyc' = NoCycle
    /\ obs' = NoObs
    /\ UNCHANGED <<id_file, spool, captured, db, nonSync>>

\* The collector loses its registry.  The registry is read only when a frame
\* is processed, so the loss is placed right before one.
ResetRegistry ==
    /\ faults < MaxFaults
    /\ db.registry # {}
    /\ c2s # <<>>
    /\ faults' = faults + 1
    /\ db' = [db EXCEPT !.registry = {}, !.last_seen = <<>>, !.first_seen = <<>>]
    /\ UNCHANGED <<agentVars, netVars, obs, cyc, nonSync>>

\* A spool file becomes unreadable as gzip-compressed JSON.  This shows only
\* when the file is read, so it is placed right before the read.
CorruptFile ==
    /\ faults < MaxFaults
    /\ apc = "iter"
    /\ json_files # <<>>
    /\ Head(json_files) \in Files
    /\ spool[Head(json_files)].kind # "corrupt"
    /\ spool' = [spool EXCEPT ![Head(json_files)].kind = "corrupt"]
    /\ faults' = faults + 1
    /\ UNCHANGED <<id_file, apc, file_counter, initial_data_saved, captured, machine_id, s_mid,
                   json_files, cur, netVars, db, obs, cyc, nonSync>>

\* the connection is reset under the agent
ConnLoss ==
    /\ faults < MaxFaults
    /\ conn = "open"
    /\ faults' = faults + 1
    /\ conn' = "reset"
    /\ c2s' = Staled(c2s)
    /\ s2c' = <<>>
    /\ cyc' = [cyc EXCEPT !.clean = FALSE]
    /\ UNCHANGED <<agentVars, db, obs, nonSync>>

(***************************************************************************)
(* Spec: a first run of the agent against an empty collector.              *)
(***************************************************************************)
IdleServer == last = [on |-> FALSE]

IdleConns ==
    /\ workers = <<>>
    /\ queue = <<>>
    /\ active_connections = 0
    /\ lock = 0
    /\ hist = <<>>
    /\ srv = [on |-> FALSE]

IdleOrder ==
    /\ pending = {}
    /\ listing = [made |-> FALSE]

IdleMore ==
    /\ framing = [on |-> FALSE]
    /\ boot = [phase |-> "none"]
    /\ racers = <<>>
    /\ idq = [on |-> FALSE]

InitSync ==
    /\ id_file = None
    /\ spool = <<>>
    /\ apc = "start"
    /\ file_counter = 1
    /\ initial_data_saved = FALSE
    /\ machine_id = None
    /\ captured = 0
    /\ s_mid = None
    /\ json_files = <<>>
    /\ cur = 0
    /\ conn = "closed"
    /\ c2s = <<>>
    /\ s2c = <<>>
    /\ db = EmptyDb
    /\ faults = 0
    /\ obs = NoObs
    /\ cyc = NoCycle

Init ==
    /\ InitSync
    /\ IdleServer
    /\ IdleMore
    /\ IdleConns
    /\ IdleOrder

Next ==
    \/ AgentStart
    \/ LoopSleep
    \/ LoopSend
    \/ \E connects \in BOOLEAN : SendBegin(connects)
    \/ SendNext
    \/ \E writes \in BOOLEAN : HandleResponse(writes)
    \/ RecvTimeout
    \/ RecvReset
    \/ Serve
    \/ Restart
    \/ ResetRegistry
    \/ CorruptFile
    \/ ConnLoss

Spec == Init /\ [][Next]_vars

(***************************************************************************)
(* Properties of Spec.                                                     *)
(***************************************************************************)
\* C1: whenever the agent has handled a response while sending file f, f was
\* removed from the data directory if and only if that response is a success
\* response the worker produced for the envelope carrying f.
C1_RemovedIffOwnSuccess ==
    obs.status # "none" =>
        (obs.removed <=> (obs.status = "success" /\ obs.for = obs.file))

\* C5: reaching the storage cap only suspends capture; the agent keeps
\* running its loop, so that later send cycles can free space.
C5_CapKeepsAgentRunning == is_storage_limit_reached(spool) => apc # "exited"

\* C6: the sizes of the pending spool files never add up to more than
\* STORAGE_LIMIT.
C6_SpoolWithinBudget == get_data_directory_size(spool) <= StorageLimit

\* C7: when a send cycle that met no network fault ends and exactly one of
\* its files was bad (unreadable, or answered with a non-success response),
\* the bad file is still spooled and every other file of the cycle has been
\* sent and removed.
C7_PartialBatch ==
    (cyc.done /\ cyc.clean /\ Cardinality(cyc.bad) = 1) =>
        \A f \in cyc.files :
            IF f \in cyc.bad
            THEN f \in Files
            ELSE f \in cyc.sent /\ f \notin Files

C7_Witness ==
    /\ cyc.done
    /\ cyc.clean
    /\ \E f \in Files :
          /\ cyc.bad = {f}
          /\ spool[f].kind = "corrupt"
          /\ \E g, h \in cyc.sent : g < f /\ f < h /\ g \notin Files /\ h \notin Files

\* C9: in a send cycle started without an identity, the first envelope
\* written on the connection carries the snapshot; no sample precedes it.
C9_SnapshotFirst == (cyc.unid /\ cyc.first # "none") => cyc.first = "snapshot"

\* C12: an invocation of send_files_to_server that returns because the
\* connection could not be opened has tried MaxTries times.
C12_RetriesConnect == cyc.refused => cyc.tries = MaxTries

\* C13: once a read timeout, a connection reset or a broken pipe was raised
\* in a send cycle, the cycle writes no further envelope and removes no
\* further file.
C13_AbortOnNetworkError == ~cyc.late

\* C14: at most one envelope of the connection awaits its response, and a
\* response the agent handles while sending a file is the response to the
\* envelope of that file.
C14_StopAndWait ==
    /\ Len(SelectSeq(c2s, LAMBDA fr : ~fr.stale)) + Len(s2c) <= 1
    /\ obs.status # "none" => obs.for = obs.file

\* C16: no step writes to a file name that is present in the spool: a
\* pending file keeps its content until it is removed (only the environment
\* can make it unreadable).
C16_NoOverwrite ==
    [][\A f \in Files :
          f \in DOMAIN spool' => (spool'[f] = spool[f] \/ spool'[f].kind = "corrupt")]_vars

C16_Witness ==
    /\ id_file # None
    /\ Files = {1, 2, 3}
    /\ spool[1].kind = "snapshot"
    /\ spool[2].kind = "sample"
    /\ spool[3].kind = "sample"
    /\ spool[3].n > spool[2].n
    /\ db.variable_data # EmptyBag

\* C17: the agent holds an identity, in continuous_collection or in a send
\* cycle, only when that identity is the one persisted in ID_FILE.
C17_IdentifiedIsPersisted ==
    /\ machine_id # None => id_file = machine_id
    /\ s_mid # None => id_file = s_mid

\* C29: ID_FILE is written once, when the identity is first resolved; once
\* it holds an identity no response makes the agent write it again.
C29_IdFileWrittenOnce == ~(obs.wrote /\ obs.had)

\* C30: batch pacing.  Between two pauses of a send cycle (and before the
\* first) the agent visits at most FILES_PER_BATCH files, whatever became
\* of them, and so writes at most FILES_PER_BATCH envelopes.
C30_BatchPacing == cyc.run <= FilesPerBatch /\ cyc.since <= FilesPerBatch


\* C31: no data loss.  When the agent removes a spool file, the collector
\* has persisted its payload: the snapshot document for 1.json.gz, a sample
\* document with the payload of the file for a sample.
C31_NoDataLoss ==
    obs.removed =>
        IF obs.rec.kind = "snapshot"
        THEN db.static_data # {}
        ELSE \E doc \in BagToSet(db.variable_data) : doc.n = obs.rec.n

\* C33: 1.json.gz is reserved for the snapshot: no sample is ever stored
\* under sequence number 1.
C33_OneIsSnapshot == 1 \in Files => spool[1].kind # "sample"

\* C35: at-most-once persistence.  The collector holds at most one sample
\* document for a spooled sample, over any number of send cycles.
C35_AtMostOnce ==
    \A doc \in BagToSet(db.variable_data) : CopiesIn(doc, db.variable_data) <= 1


\* C37: a sample file is created only by an agent whose machine_id is not
\* empty: every step that adds a sample to the spool is taken by an agent
\* whose continuous_collection holds an identity.  An agent the collector
\* has never registered (the registry is empty and was never reset) has
\* nothing but the snapshot pending.
C37_SamplesNeedIdentity ==
    [][/\ \A f \in DOMAIN spool' :
             (f \notin DOMAIN spool /\ spool'[f].kind = "sample") =>
                 (machine_id # None /\ machine_id' # None)
       /\ (db.registry = {} /\ faults = 0) =>
             \A f \in Files : f = 1 /\ spool[f].kind = "snapshot"]_vars

\* an identified agent has put a sample next to the snapshot it regenerated
C37_Witness ==
    /\ machine_id # None
    /\ id_file # None
    /\ captured > 0
    /\ \E f \in Files : spool[f].kind = "sample" /\ spool[f].n = captured


(***************************************************************************)
(* ServerSpec: process_data applied to any sequence of envelopes, whoever  *)
(* sends them.                                                             *)
(***************************************************************************)
\* how many sample documents the collector stores in ServerSpec
MaxDocs == 2

Versions == {"1.0", "0.9", Absent}

MachineIds == {Absent, None, "idA", "idB", "idX"}

Contents ==
    [kind : {"snapshot", "badsnapshot", "noos"}, fp : Fingerprints, n : {0}]
        \cup [kind : {"sample", "null"}, fp : {"-"}, n : {1}]

Envelopes == [version : Versions, filename : {1}, content : Contents, machine_id : MachineIds]

serverIdle == <<agentVars, netVars, faults, obs, cyc, connVars, orderVars, moreVars>>

\* handle_client hands one parsed frame to process_data; the collector's
\* clock stands still at 0
Process(data, fault) ==
    /\ LET out == process_data(db, data, fault, 0)
       IN  /\ fault # "none" => out # process_data(db, data, "none", 0)
           /\ BagCardinality(out.db.variable_data) <= MaxDocs
           /\ db' = out.db
           /\ last' = [on |-> TRUE, data |-> data, before |-> db, resp |-> out.resp,
                       fault |-> fault]
    /\ UNCHANGED serverIdle

ServerInit ==
    /\ InitSync
    /\ IdleServer
    /\ IdleMore
    /\ IdleConns
    /\ IdleOrder

ServerNext == \E data \in Envelopes, fault \in DbFaults : Process(data, fault)

ServerSpec == ServerInit /\ [][ServerNext]_vars

\* a Sample envelope: well-versioned, content without snapshot fields, and a
\* machine_id key (possibly null)
IsSampleEnvelope(data) ==
    /\ data.version = "1.0"
    /\ data.content.kind = "sample"
    /\ data.machine_id # Absent

\* C3: every stored sample document carries a machine_id that was in the
\* registry when process_data accepted it, and a Sample envelope whose
\* machine_id is not in the registry (null included) is answered
\* RESEND_STATIC_DATA and stores nothing.
C3_SamplesNeedRegistry ==
    /\ \A doc \in BagToSet(db.variable_data) : doc.machine_id \in db.registry
    /\ last.on =>
          /\ db.variable_data # last.before.variable_data =>
                /\ last.data.machine_id \in last.before.registry
                /\ db.variable_data = last.before.variable_data
                       (+) SetToBag({[machine_id |-> last.data.machine_id,
                                      n |-> last.data.content.n, timestamp |-> 0]})
          /\ (IsSampleEnvelope(last.data)
                 /\ last.data.machine_id \notin last.before.registry) =>
                /\ last.resp.status = "error"
                /\ last.resp.message = "RESEND_STATIC_DATA"
                /\ db = last.before

C3_Witness ==
    /\ last.on
    /\ IsSampleEnvelope(last.data)
    /\ last.data.machine_id = None
    /\ last.resp.message = "RESEND_STATIC_DATA"
    /\ \E doc \in BagToSet(db.variable_data) : doc.machine_id = "idA"

\* C18: an envelope whose version is not "1.0", or is missing, is answered
\* with error "Invalid data version" and changes nothing in the registry,
\* the snapshots and the samples, whatever else it carries.
C18_InvalidVersion ==
    (last.on /\ last.data.version # "1.0") =>
        /\ last.resp.status = "error"
        /\ last.resp.message = "Invalid data version"
        /\ db = last.before

C18_Witness ==
    /\ last.on
    /\ last.data.version = Absent
    /\ last.data.content.kind = "snapshot"
    /\ last.data.machine_id = "idA"
    /\ "idA" \in db.registry
    /\ last.resp.message = "Invalid data version"

\* C19: a well-versioned envelope with every required snapshot field
\* registers the derived identity, upserts its one snapshot document and is
\* answered success with the identity; one with a required snapshot field
\* missing is answered "Invalid data format" and changes neither the
\* registry nor the snapshot store.
C19_SnapshotIngestion ==
    (last.on /\ last.data.version = "1.0") =>
        /\ (last.data.content.kind = "snapshot" /\ last.fault = "none") =>
              LET mid == generate_machine_id(last.data.content)
              IN  /\ last.resp = Resp("success", "Static data registered", mid)
                  /\ db.registry = last.before.registry \cup {mid}
                  /\ db.static_data = last.before.static_data \cup {mid}
                  /\ db.variable_data = last.before.variable_data
        /\ last.data.content.kind \in {"badsnapshot", "noos"} =>
              /\ last.resp.status = "error"
              /\ last.resp.message = "Invalid data format"
              /\ db.registry = last.before.registry
              /\ db.last_seen = last.before.last_seen
              /\ db.static_data = last.before.static_data

\* C20: a Sample envelope whose machine_id is in the registry, when the
\* persistence operations succeed, adds exactly one sample document for that
\* machine_id, sets last_seen of that registry entry and of no other, and is
\* answered success without a machine_id.
C20_SampleIngestion ==
    (/\ last.on
     /\ IsSampleEnvelope(last.data)
     /\ last.data.machine_id \in last.before.registry
     /\ last.fault = "none") =>
        LET mid == last.data.machine_id
        IN  /\ last.resp = Resp("success", "Variable data saved", Absent)
            /\ db.variable_data = last.before.variable_data
                   (+) SetToBag({[machine_id |-> mid, n |-> last.data.content.n,
                                timestamp |-> 0]})
            /\ db.registry = last.before.registry
            /\ db.static_data = last.before.static_data
            /\ db.last_seen = [m \in DOMAIN last.before.last_seen |->
                                  IF m = mid THEN "var" ELSE last.before.last_seen[m]]

C20_Witness ==
    /\ last.on
    /\ IsSampleEnvelope(last.data)
    /\ last.data.machine_id = "idA"
    /\ last.resp.status = "success"
    /\ {"idA", "idB"} \subseteq db.registry
    /\ db.last_seen["idA"] = "var"
    /\ db.last_seen["idB"] = "reg"


\* C21: a well-versioned envelope that neither has the snapshot shape nor
\* carries a machine_id (an envelope whose content is absent or null
\* included) is answered with error "Invalid data format" and changes
\* nothing in the registry, the snapshots and the samples.
C21_InvalidFormat ==
    (last.on /\ version_ok(last.data) /\ ~has_os(last.data.content)
        /\ last.data.machine_id = Absent) =>
        /\ last.resp = Resp("error", "Invalid data format", Absent)
        /\ db = last.before


\* C34: an envelope answered with status error leaves the registry, the
\* snapshots and the samples as they were, also when a persistence operation
\* failed after an earlier one of the same envelope had succeeded.
C34_ErrorChangesNothing ==
    (last.on /\ last.resp.status = "error") => db = last.before


(***************************************************************************)
(* ConnSpec: start_server's accept loop, the ThreadPoolExecutor and        *)
(* handle_client (src/server.py).                                          *)
(***************************************************************************)
\* MAX_CONCURRENT_CONNECTIONS (50 in the source), which is also the
\* executor's max_workers, scaled down
MaxConcurrent == 2
\* how many clients connect in ConnSpec
NumConns == 3

Conns == 1..NumConns

connIdle == <<syncVars, serverVars, orderVars, moreVars>>

\* connections whose handle_client call is running on a pool thread
Running == {c \in Conns : workers[c].pc \notin {"new", "queued", "done"}}

\* connections past the admission check, inside the receive loop
Served == {c \in Conns : workers[c].pc = "serving"}

\* server_socket.accept() returns a connection and executor.submit queues
\* handle_client for it
Accept(c) ==
    /\ srv.phase = "listening"
    /\ workers[c].pc = "new"
    /\ workers' = [workers EXCEPT ![c].pc = "queued"]
    /\ queue' = Append(queue, c)
    /\ hist' = [hist EXCEPT ![c].atcap = (Cardinality(Served) = MaxConcurrent)]
    /\ UNCHANGED <<active_connections, lock, srv, connIdle>>

\* an executor that starts a thread for every submitted call
unbounded_pool(running) == TRUE

\* ThreadPoolExecutor(max_workers=MAX_CONCURRENT_CONNECTIONS): a call is
\* started only while fewer than max_workers calls are running
max_workers(running) == Cardinality(running) < MaxConcurrent

\* a pool thread is free and takes the oldest queued call
StartWorker ==
    /\ queue # <<>>
    /\ max_workers(Running)
    /\ workers' = [workers EXCEPT ![Head(queue)].pc = "enter"]
    /\ queue' = Tail(queue)
    /\ UNCHANGED <<active_connections, lock, hist, srv, connIdle>>

\* a lock that excludes nobody
CanAcquireAlways(l) == TRUE

\* threading.Lock.acquire
CanAcquire(l) == l = 0

\* with self.lock: ... the worker takes the lock and reads the counter of
\* self.active_connections += 1 (or -= 1 in the finally clause)
LockAndRead(c) ==
    /\ workers[c].pc \in {"enter", "finally"}
    /\ CanAcquire(lock)
    /\ lock' = c
    /\ workers' = [workers EXCEPT ![c].pc = IF @ = "enter" THEN "inc" ELSE "dec",
                                  ![c].tmp = active_connections]
    /\ UNCHANGED <<queue, active_connections, hist, srv, connIdle>>

\* the counter is stored, compared with the cap, and the lock released; over
\* the cap the worker sends the error response and returns
IncrementAndAdmit(c) ==
    /\ workers[c].pc = "inc"
    /\ active_connections' = workers[c].tmp + 1
    /\ lock' = IF lock = c THEN 0 ELSE lock
    /\ IF active_connections' > MaxConcurrent
       THEN /\ workers' = [workers EXCEPT ![c].pc = "finally"]
            /\ hist' = [hist EXCEPT ![c].incs = @ + 1, ![c].exit = "rejected"]
       ELSE /\ workers' = [workers EXCEPT ![c].pc = "serving"]
            /\ hist' = [hist EXCEPT ![c].incs = @ + 1]
    /\ UNCHANGED <<queue, srv, connIdle>>

ExitPaths == {"peer_closed", "network_error", "exception"}

\* the receive loop ends: recv returns b'', or raises
LeaveLoop(c, how) ==
    /\ workers[c].pc = "serving"
    /\ workers' = [workers EXCEPT ![c].pc = "finally"]
    /\ hist' = [hist EXCEPT ![c].exit = how]
    /\ UNCHANGED <<queue, active_connections, lock, srv, connIdle>>

\* finally: the socket is closed, the counter stored and the lock released;
\* the pool thread is free again
DecrementAndFinish(c) ==
    /\ workers[c].pc = "dec"
    /\ active_connections' = workers[c].tmp - 1
    /\ lock' = IF lock = c THEN 0 ELSE lock
    /\ workers' = [workers EXCEPT ![c].pc = "done"]
    /\ hist' = [hist EXCEPT ![c].decs = @ + 1]
    /\ UNCHANGED <<queue, srv, connIdle>>

\* SIGINT or SIGTERM reaches the main thread, blocked in accept: the handler
\* closes the listening socket and the MongoDB client and raises SystemExit
shutdown_server ==
    /\ srv.phase = "listening"
    /\ srv' = [phase |-> "draining", mongo_client |-> "closed"]
    /\ UNCHANGED <<workers, queue, active_connections, lock, hist, connIdle>>

\* SystemExit leaves the with block: ThreadPoolExecutor.__exit__ returns once
\* every submitted call has run; the finally clause closes the socket and the
\* client once more
ExecutorExit ==
    /\ srv.phase = "draining"
    /\ queue = <<>>
    /\ Running = {}
    /\ srv' = [phase |-> "stopped", mongo_client |-> "closed"]
    /\ UNCHANGED <<workers, queue, active_connections, lock, hist, connIdle>>

ConnInit ==
    /\ InitSync
    /\ IdleServer
    /\ IdleMore
    /\ IdleOrder
    /\ workers = [c \in Conns |-> [pc |-> "new", tmp |-> 0]]
    /\ queue = <<>>
    /\ active_connections = 0
    /\ lock = 0
    /\ hist = [c \in Conns |-> [atcap |-> FALSE, incs |-> 0, decs |-> 0, exit |-> "none"]]
    /\ srv = [phase |-> "listening", mongo_client |-> "open"]

ConnNext ==
    \/ \E c \in Conns : Accept(c)
    \/ StartWorker
    \/ \E c \in Conns : LockAndRead(c)
    \/ \E c \in Conns : IncrementAndAdmit(c)
    \/ \E c \in Conns, how \in ExitPaths : LeaveLoop(c, how)
    \/ \E c \in Conns : DecrementAndFinish(c)
    \/ shutdown_server
    \/ ExecutorExit

ConnSpec == ConnInit /\ [][ConnNext]_vars

\* C2: a connection that arrives while MAX_CONCURRENT_CONNECTIONS connections
\* are being served is rejected: it is never admitted to the receive loop.
C2_OverCapRejected ==
    \A c \in Conns : hist[c].atcap => workers[c].pc # "serving"

\* C8: every handle_client call increments and decrements the counter once,
\* holding the lock; the counter equals the number of workers that have
\* incremented and not yet decremented, and is never negative.
C8_CounterExact ==
    /\ \A c \in Conns :
          /\ hist[c].incs <= 1
          /\ hist[c].decs <= hist[c].incs
          /\ workers[c].pc \in {"inc", "dec"} => lock = c
          /\ workers[c].pc \in {"serving", "finally", "dec"} =>
                 hist[c].incs = 1 /\ hist[c].decs = 0
          /\ workers[c].pc = "done" => hist[c].incs = 1 /\ hist[c].decs = 1
    /\ active_connections = Cardinality({c \in Conns : hist[c].incs = 1 /\ hist[c].decs = 0})
    /\ active_connections >= 0

C8_Witness ==
    \E c, d \in Conns :
        /\ workers[c].pc = "done"
        /\ hist[c].exit = "network_error"
        /\ workers[d].pc = "serving"
        /\ active_connections = 1

\* C36: the counter of active connections is never negative and never
\* above MAX_CONCURRENT_CONNECTIONS, however many clients connect at once:
\* the calls beyond the pool's threads wait in the executor's queue.
C36_CounterWithinCap ==
    /\ active_connections >= 0
    /\ active_connections <= MaxConcurrent
    /\ \A c \in Conns : workers[c].pc = "inc" => workers[c].tmp < MaxConcurrent

\* more clients than pool threads have connected: the counter is at the cap
\* and a call waits in the queue
C36_Witness ==
    /\ active_connections = MaxConcurrent
    /\ queue # <<>>
    /\ Cardinality(Served) = MaxConcurrent

\* C23: graceful shutdown.  The MongoDB client is closed only when every
\* handle_client call that was submitted has run to completion: while the
\* client is closed no call is queued or running.
C23_GracefulShutdown ==
    srv.mongo_client = "closed" => (queue = <<>> /\ Running = {})


(***************************************************************************)
(* OrderSpec: the list send_files_to_server builds, for any set of pending *)
(* sequence numbers.                                                       *)
(***************************************************************************)
\* largest sequence number of a pending file in OrderSpec
MaxSeq == 11
\* how many files are pending at most in OrderSpec
MaxPending == 3

orderIdle == <<syncVars, serverVars, connVars, moreVars>>

\* lines 553-561 of send_files_to_server: the identity is read and the
\* listing of DATA_DIR is sorted and reordered
BuildList(mid) ==
    /\ ~listing.made
    /\ listing' = [made |-> TRUE, mid |-> mid, files |-> ListPending(pending, mid)]
    /\ UNCHANGED <<pending, orderIdle>>

\* the next call starts from the same directory
ForgetList ==
    /\ listing.made
    /\ listing' = [made |-> FALSE]
    /\ UNCHANGED <<pending, orderIdle>>

OrderInit ==
    /\ InitSync
    /\ IdleServer
    /\ IdleMore
    /\ IdleConns
    /\ pending \in {S \in SUBSET (1..MaxSeq) : Cardinality(S) <= MaxPending}
    /\ listing = [made |-> FALSE]

OrderNext ==
    \/ \E mid \in {None, "idA"} : BuildList(mid)
    \/ ForgetList

OrderSpec == OrderInit /\ [][OrderNext]_vars

Increasing(seq) == \A i, j \in DOMAIN seq : i < j => seq[i] < seq[j]

\* C10: apart from a snapshot file forced to the front for an agent without
\* identity, the files are listed, and so sent, in increasing sequence
\* number.
C10_OldestFirst ==
    listing.made =>
        Increasing(SelectSeq(listing.files,
                             LAMBDA f : ~(listing.mid = None /\ f = 1)))

(***************************************************************************)
(* HealSpec: a running, identified agent with only samples pending, facing *)
(* a collector whose registry is empty; nothing fails and nobody           *)
(* intervenes.                                                             *)
(***************************************************************************)
\* largest sequence number of a sample pending when HealSpec starts
MaxHealSeq == 3

HealSpools ==
    {S \in SUBSET (1..MaxHealSeq) : S # {} /\ Cardinality(S) < StorageLimit}

Newest(S) == CHOOSE m \in S : \A x \in S : x <= m

HealInit ==
    /\ IdleServer
    /\ IdleMore
    /\ IdleConns
    /\ IdleOrder
    /\ id_file = "idA"
    /\ machine_id = "idA"
    /\ apc = "loop"
    /\ initial_data_saved = TRUE
    /\ \E S \in HealSpools :
          /\ spool = [f \in S |-> Sample(1, f)]
          /\ file_counter = Newest(S)
    /\ captured = 0
    /\ s_mid = None
    /\ json_files = <<>>
    /\ cur = 0
    /\ conn = "closed"
    /\ c2s = <<>>
    /\ s2c = <<>>
    /\ db = [EmptyDb EXCEPT !.static_data = {"idA"}]
    /\ faults = 0
    /\ obs = NoObs
    /\ cyc = NoCycle

Connect == SendBegin(TRUE)

Receive == HandleResponse(TRUE)

ServeClean == ServeFrame("none", FALSE)

HealNext ==
    \/ LoopSleep
    \/ LoopSend
    \/ Connect
    \/ SendNext
    \/ Receive
    \/ ServeClean

\* The agent's loop is sequential and the clock advances, so a send cycle
\* comes due again and again and every step of a cycle is taken; the worker
\* answers every frame it has received.
HealFairness ==
    /\ SF_vars(LoopSend)
    /\ WF_vars(Connect)
    /\ WF_vars(SendNext)
    /\ WF_vars(Receive)
    /\ WF_vars(ServeClean)

HealSpec == HealInit /\ [][HealNext]_vars /\ HealFairness

HealScenario ==
    /\ apc = "loop"
    /\ id_file # None
    /\ db.registry = {}
    /\ Files # {}
    /\ \A f \in Files : spool[f].kind = "sample"

Healed == id_file \in db.registry /\ db.variable_data # EmptyBag

\* C4: from the registry-was-reset situation the agent gets its identity
\* registered again and has samples persisted, by itself.
C4_SelfHeal == HealScenario ~> Healed

\* C32: against a collector that answers every frame, every invocation of
\* send_files_to_server that has opened its connection returns.
C32_SendTerminates == (apc = "iter") ~> (apc = "loop")

(***************************************************************************)
(* ResendSpec: the agent and the collector of Spec, started where an       *)
(* identified agent that was restarted with 1.json.gz absent has written   *)
(* its snapshot and a sample, and the collector's registry was reset.      *)
(***************************************************************************)
ResendInit ==
    /\ IdleServer
    /\ IdleMore
    /\ IdleConns
    /\ IdleOrder
    /\ id_file = "idA"
    /\ machine_id = "idA"
    /\ apc = "loop"
    /\ initial_data_saved = TRUE
    /\ spool = (1 :> Snapshot) @@ (2 :> Sample(1, 1))
    /\ file_counter = 2
    /\ captured = 1
    /\ s_mid = None
    /\ json_files = <<>>
    /\ cur = 0
    /\ conn = "closed"
    /\ c2s = <<>>
    /\ s2c = <<>>
    /\ db = [EmptyDb EXCEPT !.static_data = {"idA"}]
    /\ faults = 0
    /\ obs = NoObs
    /\ cyc = NoCycle

ResendSpec == ResendInit /\ [][Next]_vars

\* C11: when a sample file is answered RESEND_STATIC_DATA while the snapshot
\* file is pending, the sample stays in the spool and the file the loop
\* takes next is the snapshot file.
C11_ResendSnapshotNext ==
    (obs.again /\ 1 \in Files /\ spool[1].kind = "snapshot") =>
        /\ obs.file \in Files
        /\ json_files # <<>>
        /\ Head(json_files) = 1

(***************************************************************************)
(* RestartSpec: an identified agent is started on a data directory that    *)
(* holds any set of sample files left by earlier runs, and captures.       *)
(***************************************************************************)
\* largest sequence number on disk when RestartSpec starts
MaxRestartSeq == 5

RestartSpools == {S \in SUBSET (1..MaxRestartSeq) : Cardinality(S) < StorageLimit}

\* the samples found on disk carry n = 0; those captured after the start are
\* numbered from 1
RestartInit ==
    /\ IdleServer
    /\ IdleMore
    /\ IdleConns
    /\ IdleOrder
    /\ id_file = "idA"
    /\ machine_id = None
    /\ apc = "start"
    /\ initial_data_saved = FALSE
    /\ \E S \in RestartSpools : spool = [f \in S |-> Sample(1, 0)]
    /\ file_counter = 1
    /\ captured = 0
    /\ s_mid = None
    /\ json_files = <<>>
    /\ cur = 0
    /\ conn = "closed"
    /\ c2s = <<>>
    /\ s2c = <<>>
    /\ db = [EmptyDb EXCEPT !.registry = {"idA"}, !.last_seen = ("idA" :> "reg"),
                            !.first_seen = ("idA" :> 0),
                            !.static_data = {"idA"}]
    /\ faults = 0
    /\ obs = NoObs
    /\ cyc = NoCycle

RestartNext ==
    \/ AgentStart
    \/ LoopSleep

RestartSpec == RestartInit /\ [][RestartNext]_vars

\* C15: a sample captured after the restart gets a sequence number above
\* every sequence number that was on disk at the restart.
C15_ResumeAfterMax ==
    \A f \in Files :
        (spool[f].kind = "sample" /\ spool[f].n > 0) =>
            \A g \in Files : (spool[g].kind = "sample" /\ spool[g].n = 0) => g < f


(***************************************************************************)
(* FrameSpec: the receive loop of handle_client on one connection, for any *)
(* byte stream and any way the network cuts it into packets.               *)
(***************************************************************************)
\* longest byte stream a peer sends before it closes the connection
MaxStream == 5
\* most bytes one recv returns (4096 in the source)
MaxPacket == 3

\* The bytes of the model: '{' and '}', of which the only JSON text that can
\* be formed is the empty object; the newline; and 0xFF, which occurs in no
\* UTF-8 text.
Bytes == {123, 125, 10, 255}

RECURSIVE Streams(_)
Streams(n) ==
    IF n = 0
    THEN {<<>>}
    ELSE LET shorter == Streams(n - 1)
         IN  shorter \cup {Append(t, b) : t \in {u \in shorter : Len(u) = n - 1}, b \in Bytes}

\* position of the first newline of buf, 0 when it has none
FirstNewline(buf) ==
    IF \E i \in 1..Len(buf) : buf[i] = 10
    THEN CHOOSE i \in 1..Len(buf) : buf[i] = 10 /\ \A j \in 1..(i - 1) : buf[j] # 10
    ELSE 0

LastNewline(buf) ==
    IF \E i \in 1..Len(buf) : buf[i] = 10
    THEN CHOOSE i \in 1..Len(buf) : buf[i] = 10 /\ \A j \in (i + 1)..Len(buf) : buf[j] # 10
    ELSE 0

\* a split at the last newline of the buffer instead of the first
rpartition(buf) ==
    [message |-> SubSeq(buf, 1, LastNewline(buf) - 1),
     data |-> SubSeq(buf, LastNewline(buf) + 1, Len(buf))]

\* message, _, data = data.partition(b'\n'), for a buffer that has a newline
partition(buf) ==
    [message |-> SubSeq(buf, 1, FirstNewline(buf) - 1),
     data |-> SubSeq(buf, FirstNewline(buf) + 1, Len(buf))]

\* message.decode('utf-8') raises UnicodeDecodeError
Undecodable(message) == \E i \in 1..Len(message) : message[i] = 255

\* json.loads(text) returns a value
IsJson(text) == text = <<123, 125>>

\* the envelope json.loads returns for the text {}
EmptyObject == [version |-> Absent, filename |-> Absent,
                content |-> [kind |-> "null", fp |-> "-", n |-> 1], machine_id |-> Absent]

\* the body of the inner while loop: the response written for one message,
\* with the newline that ends it
Answer(message) ==
    [nl |-> TRUE,
     resp |-> IF Undecodable(message)
              THEN Resp("error", "UnicodeDecodeError", Absent)
              ELSE IF ~IsJson(message)
                   THEN Resp("error", "Invalid JSON", Absent)
                   ELSE process_data(EmptyDb, EmptyObject, "none", 0).resp]

\* while b'\n' in data: the buffer and the responses once the loop has run
RECURSIVE Drain(_, _)
Drain(buf, sent) ==
    IF FirstNewline(buf) = 0
    THEN [data |-> buf, out |-> sent]
    ELSE Drain(partition(buf).data, Append(sent, Answer(partition(buf).message)))

frameIdle == <<syncVars, serverVars, connVars, orderVars, boot, racers, idq>>

\* packet = client_socket.recv(4096) returns the next k bytes; they join the
\* buffer and every complete message in it is answered
Recv(k) ==
    /\ framing.pc = "reading"
    /\ k \in 1..Len(framing.stream)
    /\ LET packet == SubSeq(framing.stream, 1, k)
           after == Drain(framing.data \o packet, framing.out)
       IN  framing' = [framing EXCEPT
                          !.stream = SubSeq(@, k + 1, Len(@)),
                          !.received = @ \o packet,
                          !.cuts = @ \cup {Len(framing.received) + k},
                          !.data = after.data,
                          !.out = after.out]
    /\ UNCHANGED frameIdle

\* the peer has closed: recv returns b'' and the loop ends
RecvEnd ==
    /\ framing.pc = "reading"
    /\ framing.stream = <<>>
    /\ framing' = [framing EXCEPT !.pc = "closed"]
    /\ UNCHANGED frameIdle

FrameInit ==
    /\ InitSync
    /\ IdleServer
    /\ IdleConns
    /\ IdleOrder
    /\ boot = [phase |-> "none"]
    /\ racers = <<>>
    /\ idq = [on |-> FALSE]
    /\ \E bytes \in Streams(MaxStream) :
          framing = [on |-> TRUE, pc |-> "reading", stream |-> bytes, received |-> <<>>,
                     cuts |-> {}, data |-> <<>>, out |-> <<>>]

FrameNext ==
    \/ \E k \in 1..MaxPacket : Recv(k)
    \/ RecvEnd

FrameSpec == FrameInit /\ [][FrameNext]_vars

\* the positions of the newlines received so far
Newlines == {i \in 1..Len(framing.received) : framing.received[i] = 10}

\* position of the i-th newline received, 0 for i = 0
NewlineAt(i) ==
    IF i = 0 THEN 0
    ELSE CHOOSE p \in Newlines : Cardinality({q \in Newlines : q < p}) = i - 1

\* the i-th complete frame received
FrameAt(i) == SubSeq(framing.received, NewlineAt(i - 1) + 1, NewlineAt(i) - 1)

RetentionDays == 2
\* the clock of the collector, and the timestamps of stored samples, are
\* days 0..MaxTime
MaxTime == 4
\* most sample documents in the database of BootSpec
MaxStored == 2

\* a persistence operation that never fails, as the constructor of
\* MongoClient, which connects lazily
lazy_connect(mongo) == TRUE

\* create_index contacts the server: it returns when MongoDB is reachable
\* and raises (after the server selection timeout) when it is not
create_index(mongo) == mongo = "up"

\* {'$lte': cutoff}
lte(timestamp, cutoff) == timestamp <= cutoff

\* {'$lt': cutoff}
lt(timestamp, cutoff) == timestamp < cutoff

\* cleanup_old_data at time now; an exception of delete_many is logged and
\* swallowed
cleanup_old_data(d, now, deletes) ==
    IF ~deletes
    THEN d
    ELSE LET cutoff == now - RetentionDays
             kept == {doc \in BagToSet(d.variable_data) : ~lt(doc.timestamp, cutoff)}
         IN  [d EXCEPT !.variable_data =
                  [doc \in kept |-> CopiesIn(doc, d.variable_data)]]

bootIdle == <<agentVars, netVars, faults, obs, cyc, serverVars, connVars, orderVars,
              framing, racers, idq>>

\* main() calls MonitoringServer(): the three create_index calls, then
\* cleanup_old_data; an exception of the former is logged and raised again,
\* and main() logs it and returns
Construct(deletes) ==
    /\ boot.phase = "new"
    /\ IF create_index(boot.mongo)
       THEN /\ db' = cleanup_old_data(db, boot.now, deletes)
            /\ boot' = [boot EXCEPT !.phase = "constructed", !.cleanup = "called",
                                    !.deleted = deletes, !.before = db]
       ELSE /\ boot' = [boot EXCEPT !.phase = "failed"]
            /\ UNCHANGED db
    /\ UNCHANGED bootIdle

\* main() goes on to start_server: bind, listen, and the accept loop
StartServer ==
    /\ boot.phase = "constructed"
    /\ boot' = [boot EXCEPT !.phase = "listening"]
    /\ UNCHANGED <<db, bootIdle>>

BootEnvelopes ==
    {Envelope(1, Snapshot, Absent), Envelope(2, Sample(1, 1), "idA")}

\* a worker of the listening server processes one frame
Handle(data) ==
    /\ boot.phase = "listening"
    /\ LET out == process_data(db, data, "none", boot.now)
       IN  /\ BagCardinality(out.db.variable_data) <= MaxStored
           /\ db' = out.db
           /\ boot' = [boot EXCEPT !.served = TRUE,
                                   !.again = data.machine_id = Absent
                                             /\ out.resp.machine_id \in db.registry]
    /\ UNCHANGED bootIdle

StoredDocs == [machine_id : {"idA"}, n : {1}, timestamp : 0..MaxTime]

\* no agent and no connection
IdleAgent ==
    /\ id_file = None
    /\ spool = <<>>
    /\ apc = "start"
    /\ file_counter = 1
    /\ initial_data_saved = FALSE
    /\ machine_id = None
    /\ captured = 0
    /\ s_mid = None
    /\ json_files = <<>>
    /\ cur = 0
    /\ conn = "closed"
    /\ c2s = <<>>
    /\ s2c = <<>>
    /\ faults = 0
    /\ obs = NoObs
    /\ cyc = NoCycle

BootInit ==
    /\ IdleAgent
    /\ IdleServer
    /\ IdleConns
    /\ IdleOrder
    /\ framing = [on |-> FALSE]
    /\ racers = <<>>
    /\ idq = [on |-> FALSE]
    /\ \E now \in 0..MaxTime, mongo \in {"up", "down"}, known \in BOOLEAN,
          docs \in {S \in SUBSET StoredDocs : Cardinality(S) <= MaxStored} :
          /\ db = [registry |-> IF known THEN {"idA"} ELSE {},
                   last_seen |-> IF known THEN SetSeen(<<>>, "idA", "reg") ELSE <<>>,
                   first_seen |-> IF known THEN SetSeen(<<>>, "idA", 0) ELSE <<>>,
                   static_data |-> IF known THEN {"idA"} ELSE {},
                   variable_data |-> SetToBag(docs)]
          /\ boot = [phase |-> "new", mongo |-> mongo, now |-> now, cleanup |-> "no",
                     deleted |-> FALSE, before |-> db, served |-> FALSE,
                     again |-> FALSE]

BootNext ==
    \/ \E deletes \in BOOLEAN : Construct(deletes)
    \/ StartServer
    \/ \E data \in BootEnvelopes : Handle(data)

BootSpec == BootInit /\ [][BootNext]_vars

\* C38: first_seen of a registry entry is set to the collector's clock when
\* the entry is created, and no later Snapshot or Sample envelope for that
\* identity changes it: every step keeps the entries of the registry and
\* their first_seen, and a new entry gets first_seen = now.
C38_FirstSeenKept ==
    [][/\ \A m \in db.registry :
            m \in db'.registry /\ db'.first_seen[m] = db.first_seen[m]
       /\ \A m \in db'.registry \ db.registry : db'.first_seen[m] = boot.now]_vars

\* a Snapshot envelope for an identity registered earlier has been handled
\* at a later time, and the entry still has the first_seen it was created with
C38_Witness ==
    /\ boot.again
    /\ boot.now > 0
    /\ "idA" \in db.registry
    /\ db.first_seen["idA"] = 0
    /\ db.last_seen["idA"] = "reg"

\* C24: when cleanup_old_data has run at time T and its deletion has
\* succeeded, no stored sample is older than T - DATA_RETENTION_DAYS; right
\* after it the samples that are not older are all there, as many times as
\* before, and the registry and the snapshots are as before.  The sweep is
\* called at startup, before the server listens or serves a connection.
C24_RetentionSweep ==
    /\ (boot.phase \in {"constructed", "listening"} /\ boot.deleted) =>
           \A doc \in BagToSet(db.variable_data) :
               doc.timestamp >= boot.now - RetentionDays
    /\ (boot.phase = "constructed" /\ boot.deleted) =>
           /\ \A doc \in BagToSet(boot.before.variable_data) :
                  doc.timestamp >= boot.now - RetentionDays =>
                      CopiesIn(doc, db.variable_data) = CopiesIn(doc, boot.before.variable_data)
           /\ db.registry = boot.before.registry
           /\ db.last_seen = boot.before.last_seen
           /\ db.static_data = boot.before.static_data
    /\ (boot.phase = "listening" \/ (boot.phase # "none" /\ boot.served)) =>
           boot.cleanup = "called"

\* the sweep has deleted a sample older than the cutoff and kept one stamped
\* exactly with the cutoff
C24_Witness ==
    /\ boot.phase = "constructed"
    /\ boot.deleted
    /\ boot.now = MaxTime
    /\ \E doc \in BagToSet(boot.before.variable_data) :
           doc.timestamp < boot.now - RetentionDays
    /\ \E doc \in BagToSet(db.variable_data) :
           doc.timestamp = boot.now - RetentionDays
    /\ "idA" \in db.registry

\* C28: when MongoDB is unreachable at startup the construction fails and
\* the server never binds, listens or serves: it is never in a phase other
\* than new or failed, and the database is untouched.
C28_NoBindWithoutPersistence ==
    (boot.phase # "none" /\ boot.mongo = "down") =>
        /\ boot.phase \in {"new", "failed"}
        /\ ~boot.served
        /\ db = boot.before

C28_Witness ==
    /\ boot.phase = "failed"
    /\ boot.mongo = "down"


(***************************************************************************)
(* IdSpec: generate_machine_id of the collector (src/server.py) and of the *)
(* offline importer (src/process_zipped_data.py), computed field by field  *)
(* on JSON snapshots.  A JSON value is a tagged record; a string is the    *)
(* sequence of its character codes.                                        *)
(***************************************************************************)
JStr(chars) == [t |-> "str", v |-> chars]
JInt(n) == [t |-> "int", v |-> n]
JList(items) == [t |-> "list", v |-> items]
JDict(members) == [t |-> "dict", v |-> members]
JNull == [t |-> "null"]
\* not a JSON value: the key is not in the object
Missing == [t |-> "missing"]

\* dict.get(key, default)
Get(d, key, default) == IF key \in DOMAIN d.v THEN d.v[key] ELSE default

\* a value formatted by an f-string: str(value)
Format(x) ==
    CASE x.t = "str" -> x.v
      [] x.t = "int" -> Digits(x.v)
      [] x.t = "null" -> <<78, 111, 110, 101>>

\* hashlib.md5(bytes).hexdigest(): a function of the bytes alone, here a
\* 16-bit polynomial digest written in decimal digits
RECURSIVE Digest(_)
Digest(bytes) ==
    IF bytes = <<>> THEN 7
    ELSE (Digest(SubSeq(bytes, 1, Len(bytes) - 1)) * 31 + bytes[Len(bytes)]) % 65521

md5_hexdigest(bytes) == JStr(Digits(Digest(bytes)))

\* the dictionaries generate_machine_id calls .get on, in the order of the
\* calls; the call raises AttributeError when one of them is not a dict
os_info(s) == Get(s, "os", JDict(<<>>))
cpu_info(s) == Get(s, "cpu", JDict(<<>>))
bios_info(s) == Get(s, "bios_carte_mere", JDict(<<>>))
memoire_info(s) == Get(s, "memoire", JDict(<<>>))
users(s) == Get(s, "utilisateurs_connectes", JList(<<>>))

\* `if users`: a non-empty list
Truthy(list) == list.t = "list" /\ list.v # <<>>

Receivers(s) ==
    <<os_info(s), cpu_info(s), bios_info(s), memoire_info(s)>>
      \o (IF Truthy(users(s)) THEN <<users(s).v[1]>> ELSE <<>>)
      \o (IF cpu_info(s).t = "dict" THEN <<Get(cpu_info(s), "frequence", JDict(<<>>))>> ELSE <<>>)
      \o (IF bios_info(s).t = "dict"
          THEN <<Get(bios_info(s), "BIOS", JDict(<<>>)), Get(bios_info(s), "Carte mère", JDict(<<>>))>>
          ELSE <<>>)
      \o (IF memoire_info(s).t = "dict" THEN <<Get(memoire_info(s), "ram", JDict(<<>>))>> ELSE <<>>)

Raises(s) == \E i \in 1..Len(Receivers(s)) : Receivers(s)[i].t # "dict"

username(s) ==
    IF Truthy(users(s)) THEN Get(users(s).v[1], "username", JStr(<<>>)) ELSE JStr(<<>>)

\* a fingerprint string that includes the MAC address
unique_string_with_mac(s) ==
    Format(Get(os_info(s), "hostname", JStr(<<>>)))
      \o Format(Get(os_info(s), "release", JStr(<<>>)))
      \o Format(username(s))
      \o Format(Get(s, "adresse_mac", JStr(<<>>)))

\* unique_string of MonitoringServer.generate_machine_id
server_unique_string(s) ==
    Format(Get(os_info(s), "hostname", JStr(<<>>)))
      \o Format(Get(os_info(s), "nom", JStr(<<>>)))
      \o Format(Get(os_info(s), "release", JStr(<<>>)))
      \o Format(Get(os_info(s), "version", JStr(<<>>)))
      \o Format(username(s))
      \o Format(Get(cpu_info(s), "coeurs_logiques", JInt(0)))
      \o Format(Get(Get(cpu_info(s), "frequence", JDict(<<>>)), "min", JInt(0)))
      \o Format(Get(Get(cpu_info(s), "frequence", JDict(<<>>)), "max", JInt(0)))
      \o Format(Get(Get(bios_info(s), "BIOS", JDict(<<>>)), "Fabricant", JStr(<<>>)))
      \o Format(Get(Get(bios_info(s), "BIOS", JDict(<<>>)), "Version", JStr(<<>>)))
      \o Format(Get(Get(bios_info(s), "Carte mère", JDict(<<>>)), "Fabricant", JStr(<<>>)))
      \o Format(Get(Get(bios_info(s), "Carte mère", JDict(<<>>)), "Modèle", JStr(<<>>)))
      \o Format(Get(Get(memoire_info(s), "ram", JDict(<<>>)), "total", JStr(<<>>)))

\* MonitoringServer.generate_machine_id: None when the try block raises
server_generate_machine_id(s) ==
    IF Raises(s) THEN JNull ELSE md5_hexdigest(server_unique_string(s))

\* a fingerprint string in which a missing coeurs_logiques is formatted as
\* the empty string
unique_string_blank_cores(s) ==
    Format(Get(os_info(s), "hostname", JStr(<<>>)))
      \o Format(Get(os_info(s), "release", JStr(<<>>)))
      \o Format(username(s))
      \o Format(Get(cpu_info(s), "coeurs_logiques", JStr(<<>>)))

\* unique_string of ZipDataProcessor.generate_machine_id
zip_unique_string(s) ==
    Format(Get(os_info(s), "hostname", JStr(<<>>)))
      \o Format(Get(os_info(s), "nom", JStr(<<>>)))
      \o Format(Get(os_info(s), "release", JStr(<<>>)))
      \o Format(Get(os_info(s), "version", JStr(<<>>)))
      \o Format(username(s))
      \o Format(Get(cpu_info(s), "coeurs_logiques", JInt(0)))
      \o Format(Get(Get(cpu_info(s), "frequence", JDict(<<>>)), "min", JInt(0)))
      \o Format(Get(Get(cpu_info(s), "frequence", JDict(<<>>)), "max", JInt(0)))
      \o Format(Get(Get(bios_info(s), "BIOS", JDict(<<>>)), "Fabricant", JStr(<<>>)))
      \o Format(Get(Get(bios_info(s), "BIOS", JDict(<<>>)), "Version", JStr(<<>>)))
      \o Format(Get(Get(bios_info(s), "Carte mère", JDict(<<>>)), "Fabricant", JStr(<<>>)))
      \o Format(Get(Get(bios_info(s), "Carte mère", JDict(<<>>)), "Modèle", JStr(<<>>)))
      \o Format(Get(Get(memoire_info(s), "ram", JDict(<<>>)), "total", JStr(<<>>)))

\* ZipDataProcessor.generate_machine_id
zip_generate_machine_id(s) ==
    IF Raises(s) THEN JNull ELSE md5_hexdigest(zip_unique_string(s))

\* the member key: x of a JSON object, nothing when x is Missing
Member(key, x) == IF x.t = "missing" THEN <<>> ELSE (key :> x)

\* The snapshots of IdSpec.  Six fields vary, the others are the same in
\* all of them.
Hostnames == {Missing, JNull, JStr(<<104>>), JStr(<<104, 49>>)}
Releases == {Missing, JStr(<<49>>)}
User(name) == JDict("username" :> JStr(name) @@ "terminal" :> JStr(<<116>>))
UserLists == {JList(<<>>), JList(<<User(<<117>>)>>), JList(<<User(<<118>>)>>),
              JList(<<User(<<117>>), User(<<118>>)>>)}
Cores == {Missing, JInt(0), JInt(4), JInt(14)}
Frequencies == {Missing, JNull, JDict("min" :> JInt(8) @@ "max" :> JInt(30))}
MacAddresses == {JStr(<<97>>), JStr(<<98>>)}

SnapshotFields ==
    [hostname : Hostnames, release : Releases, utilisateurs_connectes : UserLists,
     coeurs_logiques : Cores, frequence : Frequencies, adresse_mac : MacAddresses]

\* the JSON snapshot with the given values of the varying fields
StaticDataOf(f) ==
    JDict("os" :> JDict(Member("hostname", f.hostname) @@ Member("release", f.release)
                          @@ "nom" :> JStr(<<76>>))
          @@ "cpu" :> JDict(Member("coeurs_logiques", f.coeurs_logiques)
                              @@ Member("frequence", f.frequence)
                              @@ "coeurs_physiques" :> JInt(2))
          @@ "memoire" :> JDict("ram" :> JDict("total" :> JStr(<<56>>)))
          @@ "bios_carte_mere" :> JDict("BIOS" :> JDict("Fabricant" :> JStr(<<66>>)))
          @@ "utilisateurs_connectes" :> f.utilisateurs_connectes
          @@ "adresse_mac" :> f.adresse_mac)

idIdle == <<syncVars, serverVars, connVars, orderVars, framing, boot, racers>>

\* the number of fields in which the second snapshot may get another value
MaxEdits == 2

\* a second snapshot is taken in which a field has another value
Edit(field, value) ==
    /\ idq.on
    /\ idq.edited < MaxEdits
    /\ ~idq.got
    /\ idq.b[field] # value
    /\ idq' = [idq EXCEPT !.b = [@ EXCEPT ![field] = value], !.edited = @ + 1]
    /\ UNCHANGED idIdle

\* both processors compute the identity of both snapshots
GenerateIds ==
    /\ idq.on
    /\ ~idq.got
    /\ idq' = [idq EXCEPT !.got = TRUE,
                         !.server = [a |-> server_generate_machine_id(StaticDataOf(idq.a)),
                                     b |-> server_generate_machine_id(StaticDataOf(idq.b))],
                         !.zip = [a |-> zip_generate_machine_id(StaticDataOf(idq.a)),
                                  b |-> zip_generate_machine_id(StaticDataOf(idq.b))]]
    /\ UNCHANGED idIdle

IdInit ==
    /\ InitSync
    /\ IdleServer
    /\ IdleConns
    /\ IdleOrder
    /\ framing = [on |-> FALSE]
    /\ boot = [phase |-> "none"]
    /\ racers = <<>>
    /\ \E f \in SnapshotFields :
          idq = [on |-> TRUE, a |-> f, b |-> f, edited |-> 0, got |-> FALSE,
                 server |-> [a |-> JNull, b |-> JNull], zip |-> [a |-> JNull, b |-> JNull]]

IdNext ==
    \/ \E field \in DOMAIN idq.b, value \in UNION {Hostnames, Releases, UserLists, Cores,
                                                    Frequencies, MacAddresses} :
          /\ [idq.b EXCEPT ![field] = value] \in SnapshotFields
          /\ Edit(field, value)
    \/ GenerateIds

IdSpec == IdInit /\ [][IdNext]_vars

\* the first entry of utilisateurs_connectes, Missing for the empty list
FirstUser(list) == IF list.v = <<>> THEN Missing ELSE list.v[1]

\* the two snapshots agree on every field the fingerprint is made of
SameFingerprint(f, g) ==
    /\ f.hostname = g.hostname
    /\ f.release = g.release
    /\ FirstUser(f.utilisateurs_connectes) = FirstUser(g.utilisateurs_connectes)
    /\ f.coeurs_logiques = g.coeurs_logiques
    /\ f.frequence = g.frequence

\* the values generate_machine_id reads for the fingerprint, defaults
\* included, in the order in which it formats them
fingerprint_fields(s) ==
    << Get(os_info(s), "hostname", JStr(<<>>)),
       Get(os_info(s), "nom", JStr(<<>>)),
       Get(os_info(s), "release", JStr(<<>>)),
       Get(os_info(s), "version", JStr(<<>>)),
       username(s),
       Get(cpu_info(s), "coeurs_logiques", JInt(0)),
       Get(Get(cpu_info(s), "frequence", JDict(<<>>)), "min", JInt(0)),
       Get(Get(cpu_info(s), "frequence", JDict(<<>>)), "max", JInt(0)),
       Get(Get(bios_info(s), "BIOS", JDict(<<>>)), "Fabricant", JStr(<<>>)),
       Get(Get(bios_info(s), "BIOS", JDict(<<>>)), "Version", JStr(<<>>)),
       Get(Get(bios_info(s), "Carte mère", JDict(<<>>)), "Fabricant", JStr(<<>>)),
       Get(Get(bios_info(s), "Carte mère", JDict(<<>>)), "Modèle", JStr(<<>>)),
       Get(Get(memoire_info(s), "ram", JDict(<<>>)), "total", JStr(<<>>)) >>

\* C39: the canonical string is injective on the fingerprint fields: two
\* snapshots for which generate_machine_id reads different field values
\* (and does not raise) have different canonical strings, in the collector
\* and in the offline importer.
C39_CanonicalInjective ==
    (/\ idq.on
     /\ idq.got
     /\ ~Raises(StaticDataOf(idq.a))
     /\ ~Raises(StaticDataOf(idq.b))
     /\ fingerprint_fields(StaticDataOf(idq.a)) # fingerprint_fields(StaticDataOf(idq.b)))
        => /\ server_unique_string(StaticDataOf(idq.a))
                # server_unique_string(StaticDataOf(idq.b))
           /\ zip_unique_string(StaticDataOf(idq.a))
                # zip_unique_string(StaticDataOf(idq.b))

\* C25: the collector's generate_machine_id is a function of the fingerprint
\* fields: the same snapshot, and two snapshots that differ only outside the
\* fingerprint fields, get the same identity.
C25_IdentityIsFingerprint ==
    (idq.on /\ idq.got /\ SameFingerprint(idq.a, idq.b)) => idq.server.a = idq.server.b

\* two snapshots with different MAC addresses get the same, non-null,
\* identity
C25_Witness ==
    /\ idq.on
    /\ idq.got
    /\ idq.a.adresse_mac # idq.b.adresse_mac
    /\ idq.server.a = idq.server.b
    /\ idq.server.a.t = "str"

\* C26: the offline importer computes the same identity as the collector for
\* every snapshot, missing and null fields included.
C26_OfflineEqualsOnline ==
    (idq.on /\ idq.got) => (idq.zip.a = idq.server.a /\ idq.zip.b = idq.server.b)

\* both agree on a snapshot without coeurs_logiques and with a null
\* hostname, and on a snapshot whose frequence is null
C26_Witness ==
    /\ idq.on
    /\ idq.got
    /\ idq.a.coeurs_logiques = Missing
    /\ idq.a.hostname = JNull
    /\ idq.a.frequence # JNull
    /\ idq.zip.a.t = "str"
    /\ idq.b.frequence = JNull
    /\ idq.zip.b = JNull


(***************************************************************************)
(* RaceSpec: workers of the thread pool process one snapshot each, their   *)
(* persistence operations interleaved.  Each operation is atomic in        *)
(* MongoDB; no lock of the server spans two of them.                       *)
(***************************************************************************)
\* workers that process a snapshot at the same time
NumRacers == 2

Racers == 1..NumRacers

raceIdle == <<agentVars, netVars, faults, obs, cyc, serverVars, connVars, orderVars,
              framing, boot, idq>>

\* existing = self.machine_ids_collection.find_one({'machine_id': machine_id})
FindExisting(w) ==
    /\ racers[w].pc = "find"
    /\ racers' = [racers EXCEPT ![w].pc = "write",
                                ![w].existing = find_one(db, racers[w].machine_id)]
    /\ UNCHANGED <<db, raceIdle>>

\* if existing: update_one($set), which matches the entry if it is there;
\* else: insert_one, which the unique index on machine_id (created by
\* __init__) refuses with DuplicateKeyError when the entry is there by now.
\* The exception makes register_machine return False and process_data
\* answer "Failed to register machine".
WriteRecord(w) ==
    /\ racers[w].pc = "write"
    /\ LET mid == racers[w].machine_id
       IN  IF ~racers[w].existing /\ mid \in db.registry
           THEN /\ racers' = [racers EXCEPT
                                 ![w].pc = "done",
                                 ![w].resp = Resp("error", "Failed to register machine", Absent)]
                /\ UNCHANGED db
           ELSE /\ racers' = [racers EXCEPT ![w].pc = "static"]
                /\ db' = IF racers[w].existing /\ mid \notin db.registry
                         THEN db
                         ELSE [db EXCEPT !.registry = @ \cup {mid},
                                         !.last_seen = SetSeen(@, mid, "reg"),
                                         !.first_seen = IF racers[w].existing
                                                        THEN set_machine_record(@, mid, 0)
                                                        ELSE SetSeen(@, mid, 0)]
    /\ UNCHANGED raceIdle

\* save_static_data, then the success response
SaveStatic(w) ==
    /\ racers[w].pc = "static"
    /\ db' = save_static_data(db, racers[w].machine_id, "none").db
    /\ racers' = [racers EXCEPT
                     ![w].pc = "done",
                     ![w].resp = Resp("success", "Static data registered", racers[w].machine_id)]
    /\ UNCHANGED raceIdle

RaceInit ==
    /\ IdleAgent
    /\ IdleServer
    /\ IdleConns
    /\ IdleOrder
    /\ framing = [on |-> FALSE]
    /\ boot = [phase |-> "none"]
    /\ idq = [on |-> FALSE]
    /\ \E known \in SUBSET {"idA", "idB"} :
          db = [registry |-> known, last_seen |-> [m \in known |-> "reg"],
                first_seen |-> [m \in known |-> 0],
                static_data |-> known, variable_data |-> EmptyBag]
    /\ \E fp \in [Racers -> Fingerprints] :
          racers = [w \in Racers |->
                       [pc |-> "find", machine_id |-> generate_machine_id([fp |-> fp[w]]),
                        existing |-> FALSE, resp |-> Resp("none", "none", Absent)]]

RaceNext ==
    \/ \E w \in Racers : FindExisting(w)
    \/ \E w \in Racers : WriteRecord(w)
    \/ \E w \in Racers : SaveStatic(w)

RaceSpec == RaceInit /\ [][RaceNext]_vars

\* C27: when two workers have processed snapshots of the same identity at
\* the same time, the registry has the entry of that identity (one entry:
\* the registry holds at most one per identity) and both workers have
\* answered with success.
C27_ConcurrentRegistration ==
    \A v, w \in DOMAIN racers :
        (v # w /\ racers[v].machine_id = racers[w].machine_id
           /\ racers[v].pc = "done" /\ racers[w].pc = "done") =>
            /\ racers[v].machine_id \in db.registry
            /\ racers[v].resp.status = "success"
            /\ racers[w].resp.status = "success"

=============================================================================




